---------------------------- MODULE Spec2Model ----------------------------
(***************************************************************************)
(* A model of eta/core/data.py: DataFileSequence (index bounds, path       *)
(* generation, iteration), AttributeContainer with its                     *)
(* AttributeContainerSchema (schema-enforced insertion), the               *)
(* AttributeSchema variants and their merging, and DataRecords (lookups    *)
(* and cull).                                                              *)
(*                                                                         *)
(* Python values are modelled as follows.                                  *)
(*   - None and "a value" are <<>> and <<v>> (an option), so that the two  *)
(*     can always be compared.                                             *)
(*   - A raised exception is the err field of a call's outcome; the code   *)
(*     raises DataFileSequenceError with three different messages, and     *)
(*     AttributeContainerSchemaError with two: err names the message.      *)
(*   - NumericAttribute values (float) are integers.                       *)
(*   - A path is the sequence of characters the pattern's %0<w>d           *)
(*     placeholder formats the index to.                                   *)
(***************************************************************************)
EXTENDS Integers, Sequences, FiniteSets

VARIABLES
    \* ---- DataFileSequence: the object's fields
    immutable_bounds,   \* self.immutable_bounds
    lower_bound,        \* self._lower_bound
    upper_bound,        \* self._upper_bound
    iter_index,         \* self._iter_index: None or an index
    \* ---- DataFileSequence: what a caller has observed
    seq_call,           \* the last call: [op, arg, err, ret]
    lower0,             \* the bounds __init__ found on disk
    upper0,
    covered,            \* the indices found on disk by __init__ or passed to a
                        \* successful gen_path call since
    yielded,            \* the paths __next__ returned since the last iter()
    iter_steady,        \* an iter() happened and no bound changed since
    yielded2,           \* the paths __next__ returned to a second consumer
                        \* since its iter()
    iter_open,          \* the consumers (1, 2) that called iter() and have
                        \* not yet seen their iteration end
    iter_caller,        \* the consumer that made the last iter() or next()
    \* ---- AttributeContainer: the object's fields
    attrs,              \* self.attrs (the container's elements, in order)
    schema,             \* self.schema: None or an AttributeContainerSchema
    \* ---- AttributeContainer: what a caller has observed
    ctr_call,           \* the last call: [op, arg, err, ret]
    \* ---- two AttributeSchema objects, and the last call on them
    schema_a,
    schema_b,
    as_call,
    \* ---- two AttributeContainerSchema objects
    heap,               \* the AttributeSchema objects they refer to, by identity
    cschemas,           \* for each container schema, self.schema: a dict from
                        \* attribute name to the identity of an AttributeSchema
    cs_call,            \* the last call: [op, self, arg, err, ret]
    merged,             \* the pairs <<A, B>> of distinct container schemas
                        \* for which A.merge_schema(B) has been called
    \* ---- DataRecords
    records,            \* self.records
    rec_call            \* the last call: [op, field, arg, err, ret, inds]

seqVars == <<immutable_bounds, lower_bound, upper_bound, iter_index,
             seq_call, lower0, upper0, covered, yielded, iter_steady,
             yielded2, iter_open, iter_caller>>
ctrVars == <<attrs, schema, ctr_call>>
asVars == <<schema_a, schema_b, as_call>>
csVars == <<heap, cschemas, cs_call, merged>>
recVars == <<records, rec_call>>
vars == <<seqVars, ctrVars, asVars, csVars, recVars>>

\* what the calls on one object leave alone: the other objects
notSeq == <<ctrVars, asVars, csVars, recVars>>
notCtr == <<seqVars, asVars, csVars, recVars>>
notAs == <<seqVars, ctrVars, csVars, recVars>>
notCs == <<seqVars, ctrVars, asVars, recVars>>
notRec == <<seqVars, ctrVars, asVars, csVars>>

(***************************************************************************)
(* Python's None, and the option holding a value.                          *)
(***************************************************************************)
None == <<>>
Some(v) == <<v>>

NoError == "none"

(***************************************************************************)
(* Bounds of the model.                                                    *)
(***************************************************************************)
\* the largest sequence index a caller passes or a disk scan finds
MaxIndex == 8
\* the largest number of attributes a container holds
MaxLen == 2

\* the largest number of records a DataRecords container holds
MaxRecords == 3

\* the same, where calls are interleaved with an iteration
MaxIterIndex == 3

\* indices and bound values passed by callers (one negative value included)
Indices == -1 .. MaxIndex
IterIndices == -1 .. MaxIterIndex

\* the (lower, upper) pairs the constructor's disk scan may find
InitBounds == {<<3, 7>>, <<0, 4>>}
IterInitBounds == {<<0, 1>>, <<1, 3>>}

(***************************************************************************)
(* DataFileSequence                                                        *)
(***************************************************************************)

\* the width w of the pattern's %0<w>d placeholder ("/path/to/video/%05d.png")
PatternWidth == 5

DigitChars == <<"0", "1", "2", "3", "4", "5", "6", "7", "8", "9">>

RECURSIVE Digits(_)
Digits(n) ==
    IF n < 10 THEN <<DigitChars[n + 1]>>
    ELSE Digits(n \div 10) \o <<DigitChars[(n % 10) + 1]>>

RECURSIVE ZeroPad(_, _)
ZeroPad(s, w) == IF Len(s) >= w THEN s ELSE ZeroPad(<<"0">> \o s, w)

\* self.sequence % index, for a pattern whose placeholder is %0<w>d: the
\* characters of the formatted index (the text around the placeholder is the
\* same for every index and is left out)
Format(index) ==
    IF index < 0
    THEN <<"-">> \o ZeroPad(Digits(-index), PatternWidth - 1)
    ELSE ZeroPad(Digits(index), PatternWidth)

\* check_bounds with the upper bound excluded
check_bounds_exclusive(lo, hi, index) ==
    IF index < lo \/ index >= hi THEN FALSE ELSE TRUE

check_bounds(lo, hi, index) ==
    IF index < lo \/ index > hi THEN FALSE ELSE TRUE

\* outcomes of gen_path: the bounds it leaves, and the error or the path
Raise(lo, hi, e) == [lower |-> lo, upper |-> hi, err |-> e, ret |-> None]
Return(lo, hi, p) == [lower |-> lo, upper |-> hi, err |-> NoError, ret |-> Some(p)]

\* gen_path extending a mutable sequence to any index outside its bounds
gen_path_any_step(imm, lo, hi, index) ==
    IF imm
    THEN IF ~check_bounds(lo, hi, index)
         THEN Raise(lo, hi, "IndexOutOfBounds")
         ELSE Return(lo, hi, Format(index))
    ELSE IF index < 0 THEN Raise(lo, hi, "IndicesMustBeNonnegative")
    ELSE IF index < lo THEN Return(index, hi, Format(index))
    ELSE IF index > hi THEN Return(lo, index, Format(index))
    ELSE Return(lo, hi, Format(index))

\* gen_path without the check for a negative index
gen_path_negative_first(imm, lo, hi, index) ==
    IF index = lo - 1 /\ ~imm THEN Return(index, hi, Format(index))
    ELSE IF index = hi + 1 /\ ~imm THEN Return(lo, index, Format(index))
    ELSE IF ~check_bounds(lo, hi, index)
         THEN Raise(lo, hi, "IndexOutOfBounds")
         ELSE Return(lo, hi, Format(index))

gen_path(imm, lo, hi, index) ==
    IF imm
    THEN IF ~check_bounds(lo, hi, index)
         THEN Raise(lo, hi, "IndexOutOfBounds")
         ELSE Return(lo, hi, Format(index))
    ELSE IF index < 0 THEN Raise(lo, hi, "IndicesMustBeNonnegative")
    ELSE IF index = lo - 1 THEN Return(index, hi, Format(index))
    ELSE IF index = hi + 1 THEN Return(lo, index, Format(index))
    ELSE IF ~check_bounds(lo, hi, index)
         THEN Raise(lo, hi, "IndexOutOfBounds")
         ELSE Return(lo, hi, Format(index))

Min(a, b) == IF a <= b THEN a ELSE b
Max(a, b) == IF a >= b THEN a ELSE b

\* the lower_bound setter storing the value as given
lower_bound_setter_unclamped(value, hi) == value

\* the value the lower_bound setter stores
lower_bound_setter(value, hi) == Min(value, hi)
\* the value the upper_bound setter stores
upper_bound_setter(value, lo) == Max(value, lo)

\* DataFileSequence.__init__: the bounds are those of the files on disk
SeqInit(bounds) ==
    /\ immutable_bounds \in BOOLEAN
    /\ \E b \in bounds : lower_bound = b[1] /\ upper_bound = b[2]
    /\ iter_index = None
    /\ seq_call = [op |-> "init", arg |-> None, err |-> NoError, ret |-> None]
    /\ lower0 = lower_bound
    /\ upper0 = upper_bound
    /\ covered = lower_bound .. upper_bound
    /\ yielded = <<>>
    /\ iter_steady = FALSE
    /\ yielded2 = <<>>
    /\ iter_open = {}
    /\ iter_caller = 0

\* seq.gen_path(index), or seq[index]
GenPath(index) ==
    LET r == gen_path(immutable_bounds, lower_bound, upper_bound, index) IN
    /\ lower_bound' = r.lower
    /\ upper_bound' = r.upper
    /\ seq_call' = [op |-> "gen_path", arg |-> Some(index), err |-> r.err, ret |-> r.ret]
    /\ covered' = IF r.err = NoError THEN covered \cup {index} ELSE covered
    /\ iter_steady' = (iter_steady /\ r.lower = lower_bound /\ r.upper = upper_bound)
    /\ UNCHANGED <<immutable_bounds, iter_index, lower0, upper0, yielded,
                   yielded2, iter_open, iter_caller>>
    /\ UNCHANGED notSeq

\* seq.lower_bound = value
SetLowerBound(value) ==
    /\ IF immutable_bounds
       THEN /\ seq_call' = [op |-> "set_lower", arg |-> Some(value),
                            err |-> "ImmutableBounds", ret |-> None]
            /\ UNCHANGED <<lower_bound, iter_steady>>
       ELSE /\ lower_bound' = lower_bound_setter(value, upper_bound)
            /\ seq_call' = [op |-> "set_lower", arg |-> Some(value),
                            err |-> NoError, ret |-> None]
            /\ iter_steady' = (iter_steady /\ lower_bound' = lower_bound)
    /\ UNCHANGED <<immutable_bounds, upper_bound, iter_index, lower0, upper0,
                   covered, yielded, yielded2, iter_open, iter_caller>>
    /\ UNCHANGED notSeq

\* seq.upper_bound = value
SetUpperBound(value) ==
    /\ IF immutable_bounds
       THEN /\ seq_call' = [op |-> "set_upper", arg |-> Some(value),
                            err |-> "ImmutableBounds", ret |-> None]
            /\ UNCHANGED <<upper_bound, iter_steady>>
       ELSE /\ upper_bound' = upper_bound_setter(value, lower_bound)
            /\ seq_call' = [op |-> "set_upper", arg |-> Some(value),
                            err |-> NoError, ret |-> None]
            /\ iter_steady' = (iter_steady /\ upper_bound' = upper_bound)
    /\ UNCHANGED <<immutable_bounds, lower_bound, iter_index, lower0, upper0,
                   covered, yielded, yielded2, iter_open, iter_caller>>
    /\ UNCHANGED notSeq

\* the paths consumer k has received since its iter()
Yielded(k) == IF k = 1 THEN yielded ELSE yielded2

\* iter(seq), called by consumer k: __iter__ returns the sequence object
\* itself, so every consumer holds the same iterator
IterBy(k) ==
    /\ iter_index' = Some(lower_bound - 1)
    /\ seq_call' = [op |-> "iter", arg |-> None, err |-> NoError, ret |-> None]
    /\ yielded' = IF k = 1 THEN <<>> ELSE yielded
    /\ yielded2' = IF k = 2 THEN <<>> ELSE yielded2
    /\ iter_open' = iter_open \cup {k}
    /\ iter_caller' = k
    /\ iter_steady' = TRUE
    /\ UNCHANGED <<immutable_bounds, lower_bound, upper_bound, lower0, upper0,
                   covered>>
    /\ UNCHANGED notSeq

\* next(seq), called by consumer k
NextItemBy(k) ==
    /\ IF iter_index = None
       THEN \* None += 1
            /\ seq_call' = [op |-> "next", arg |-> None, err |-> "TypeError", ret |-> None]
            /\ iter_open' = iter_open \ {k}
            /\ UNCHANGED <<iter_index, lower_bound, upper_bound, covered,
                           yielded, yielded2, iter_steady>>
       ELSE LET i == iter_index[1] + 1 IN
            IF ~check_bounds(lower_bound, upper_bound, i)
            THEN /\ iter_index' = None
                 /\ seq_call' = [op |-> "next", arg |-> None,
                                 err |-> "StopIteration", ret |-> None]
                 /\ iter_open' = iter_open \ {k}
                 /\ UNCHANGED <<lower_bound, upper_bound, covered, yielded,
                                yielded2, iter_steady>>
            ELSE LET r == gen_path(immutable_bounds, lower_bound, upper_bound, i)
                     got == r.err = NoError
                 IN
                 /\ iter_index' = Some(i)
                 /\ lower_bound' = r.lower
                 /\ upper_bound' = r.upper
                 /\ seq_call' = [op |-> "next", arg |-> None, err |-> r.err, ret |-> r.ret]
                 /\ covered' = IF got THEN covered \cup {i} ELSE covered
                 /\ yielded' = IF got /\ k = 1 THEN Append(yielded, r.ret[1]) ELSE yielded
                 /\ yielded2' = IF got /\ k = 2 THEN Append(yielded2, r.ret[1]) ELSE yielded2
                 /\ iter_open' = IF got THEN iter_open ELSE iter_open \ {k}
                 /\ iter_steady' = (iter_steady /\ r.lower = lower_bound
                                                /\ r.upper = upper_bound)
    /\ iter_caller' = k
    /\ UNCHANGED <<immutable_bounds, lower0, upper0>>
    /\ UNCHANGED notSeq

\* iter(seq) and next(seq) where one consumer iterates
Iter == IterBy(1)
NextItem == NextItemBy(1)

\* a sequence that is constructed and then left alone
SeqIdle ==
    /\ immutable_bounds = TRUE
    /\ lower_bound = 0
    /\ upper_bound = 0
    /\ iter_index = None
    /\ seq_call = [op |-> "init", arg |-> None, err |-> NoError, ret |-> None]
    /\ lower0 = 0
    /\ upper0 = 0
    /\ covered = {0}
    /\ yielded = <<>>
    /\ iter_steady = FALSE
    /\ yielded2 = <<>>
    /\ iter_open = {}
    /\ iter_caller = 0

\* the call record of an object that is constructed and then left alone
InitCall == [op |-> "init", arg |-> None, err |-> NoError, ret |-> None]

\* attribute schemas, container schemas and records that are left alone
AsIdle ==
    /\ schema_a = None
    /\ schema_b = None
    /\ as_call = InitCall
CsIdle ==
    /\ heap = <<>>
    /\ cschemas = <<>>
    /\ cs_call = InitCall
    /\ merged = {}
RecIdle ==
    /\ records = <<>>
    /\ rec_call = InitCall

\* a container that is constructed and then left alone
CtrIdle ==
    /\ attrs = <<>>
    /\ schema = None
    /\ ctr_call = [op |-> "init", arg |-> None, err |-> NoError, ret |-> None]

\* gen_path and the bound setters, called in any order
NextSeq ==
    \/ \E index \in Indices : GenPath(index)
    \/ \E value \in Indices : SetLowerBound(value)
    \/ \E value \in Indices : SetUpperBound(value)

InitSeq == SeqInit(InitBounds) /\ CtrIdle /\ AsIdle /\ CsIdle /\ RecIdle

SpecSeq == InitSeq /\ [][NextSeq]_vars

\* the same calls interleaved with iter() and next()
NextIter ==
    \/ \E index \in IterIndices : GenPath(index)
    \/ \E value \in IterIndices : SetLowerBound(value)
    \/ \E value \in IterIndices : SetUpperBound(value)
    \/ Iter
    \/ NextItem

InitIter == SeqInit(IterInitBounds) /\ CtrIdle /\ AsIdle /\ CsIdle /\ RecIdle

SpecIter == InitIter /\ [][NextIter]_vars

\* the consumers that iterate over one sequence object
Consumers == {1, 2}

\* a consumer starts an iteration, at any point of the other's
NestedIter(k) == IterBy(k)

\* a consumer takes the next item of the iteration it started; it gives up
\* once it has received more items than the sequence has indices
NestedNext(k) ==
    /\ k \in iter_open
    /\ Len(Yielded(k)) <= upper_bound - lower_bound + 1
    /\ NextItemBy(k)

\* two iterations over the same sequence, nested or interleaved
NextNested ==
    \/ \E k \in Consumers : NestedIter(k)
    \/ \E k \in Consumers : NestedNext(k)

InitNested == SeqInit(IterInitBounds) /\ CtrIdle /\ AsIdle /\ CsIdle /\ RecIdle

SpecNested == InitNested /\ [][NextNested]_vars

(***************************************************************************)
(* Properties of DataFileSequence                                          *)
(***************************************************************************)

\* the step is a call of gen_path, and its argument
IsGenPath == seq_call'.op = "gen_path"
GenPathIndex == seq_call'.arg[1]
BoundsUnchanged == lower_bound' = lower_bound /\ upper_bound' = upper_bound
IsSetter == seq_call'.op \in {"set_lower", "set_upper"}

\* C1: in mutable mode, for a non-negative index, gen_path(lower-1) succeeds
\* and sets lower to the index leaving upper alone, gen_path(upper+1)
\* succeeds and sets upper to the index leaving lower alone, and gen_path of
\* an index within [lower, upper] succeeds and changes neither bound; so a
\* successful gen_path moves at most one bound, by exactly one, outward.
C1_GenPathExtendsByOne ==
    [][(IsGenPath /\ ~immutable_bounds /\ GenPathIndex >= 0) =>
            LET index == GenPathIndex IN
            /\ index = lower_bound - 1 =>
                   /\ seq_call'.err = NoError
                   /\ lower_bound' = index
                   /\ upper_bound' = upper_bound
            /\ index = upper_bound + 1 =>
                   /\ seq_call'.err = NoError
                   /\ upper_bound' = index
                   /\ lower_bound' = lower_bound
            /\ (lower_bound <= index /\ index <= upper_bound) =>
                   /\ seq_call'.err = NoError
                   /\ BoundsUnchanged
            /\ seq_call'.err = NoError =>
                   \/ BoundsUnchanged
                   \/ lower_bound' = lower_bound - 1 /\ upper_bound' = upper_bound
                   \/ upper_bound' = upper_bound + 1 /\ lower_bound' = lower_bound
      ]_vars

\* a mutable sequence found at [3,7] that gen_path(2) has extended downwards
C1_Witness ==
    /\ ~immutable_bounds
    /\ lower0 = 3 /\ upper0 = 7
    /\ seq_call = [op |-> "gen_path", arg |-> Some(2), err |-> NoError,
                   ret |-> Some(Format(2))]
    /\ lower_bound = 2 /\ upper_bound = 7

\* C2: in mutable mode gen_path fails for every negative index (indices must
\* be nonnegative) and for every non-negative index below lower-1 or above
\* upper+1 (out of bounds), and a failed call leaves both bounds unchanged;
\* so from [3,7], after gen_path(2), gen_path(0) still fails.
C2_GenPathRejectsGaps ==
    [][(IsGenPath /\ ~immutable_bounds) =>
            LET index == GenPathIndex IN
            /\ index < 0 => seq_call'.err = "IndicesMustBeNonnegative"
            /\ (index >= 0 /\ (index < lower_bound - 1 \/ index > upper_bound + 1)) =>
                   seq_call'.err = "IndexOutOfBounds"
            /\ seq_call'.err # NoError => (BoundsUnchanged /\ seq_call'.ret = None)
      ]_vars

\* found at [3,7] and extended to [2,7] by gen_path(2), gen_path(0) has failed
C2_Witness ==
    /\ ~immutable_bounds
    /\ lower0 = 3 /\ upper0 = 7
    /\ covered = 2 .. 7
    /\ lower_bound = 2 /\ upper_bound = 7
    /\ seq_call = [op |-> "gen_path", arg |-> Some(0), err |-> "IndexOutOfBounds",
                   ret |-> None]

\* every index of the current range was found on disk at construction or was
\* passed to a successful gen_path call
NoGaps == \A i \in lower_bound .. upper_bound : i \in covered

\* C3 (as claimed): after any sequence of gen_path calls and bound-setter
\* calls, every index in [lower, upper] lay in the construction-time range or
\* was the argument of an earlier successful gen_path call.
C3_NoGapsEver == NoGaps

\* Where the gaps come from: a step that is not a bound assignment moving a
\* bound outward never creates a gap (gen_path alone keeps NoGaps).
GenPathCreatesNoGap ==
    [][(/\ NoGaps
        /\ IsSetter => (lower_bound' >= lower_bound /\ upper_bound' <= upper_bound))
       => NoGaps']_vars

\* C4: for an immutable sequence, under any gen_path, bound-setter and
\* iteration calls, the bounds stay those of construction; gen_path(index)
\* succeeds, returning the formatted path, exactly when lower <= index <=
\* upper and otherwise fails as out of bounds; every bound assignment fails
\* as an assignment to immutable bounds.
C4_ImmutableBounds ==
    immutable_bounds =>
        /\ lower_bound = lower0 /\ upper_bound = upper0
        /\ seq_call.op = "gen_path" =>
               LET index == seq_call.arg[1] IN
               IF lower_bound <= index /\ index <= upper_bound
               THEN seq_call.err = NoError /\ seq_call.ret = Some(Format(index))
               ELSE seq_call.err = "IndexOutOfBounds" /\ seq_call.ret = None
        /\ seq_call.op \in {"set_lower", "set_upper"} =>
               seq_call.err = "ImmutableBounds"

\* an immutable sequence, part of it iterated, refusing the index above upper
C4_Witness ==
    /\ immutable_bounds
    /\ yielded # <<>>
    /\ seq_call.op = "gen_path"
    /\ seq_call.arg = Some(upper_bound + 1)
    /\ seq_call.err = "IndexOutOfBounds"

\* C5: lower <= upper in every reachable state, after any gen_path calls
\* (successful or failed) and bound assignments of arbitrary values; a mutable
\* lower_bound assignment stores min(value, upper) and a mutable upper_bound
\* assignment stores max(value, lower).
C5_LowerAtMostUpper ==
    /\ lower_bound <= upper_bound
    /\ (seq_call.op = "set_lower" /\ seq_call.err = NoError) =>
           lower_bound = (IF seq_call.arg[1] <= upper_bound
                          THEN seq_call.arg[1] ELSE upper_bound)
    /\ (seq_call.op = "set_upper" /\ seq_call.err = NoError) =>
           upper_bound = (IF seq_call.arg[1] >= lower_bound
                          THEN seq_call.arg[1] ELSE lower_bound)

\* a lower_bound assignment above upper, clamped to upper
C5_Witness ==
    /\ ~immutable_bounds
    /\ seq_call.op = "set_lower"
    /\ seq_call.arg[1] > upper_bound
    /\ lower_bound = upper_bound

\* the paths of lower, lower+1, ... in order, n of them
PathsFrom(lo, n) == [k \in 1 .. n |-> Format(lo + k - 1)]

\* C6: iterating a sequence (immutable or mutable) yields the paths of lower,
\* lower+1, ..., upper in that order, upper-lower+1 of them, and then stops;
\* iter() at any point starts the next iteration at lower.  (Stated of an
\* iteration during which no bound changes.)
C6_IterationYieldsRange ==
    iter_steady =>
        /\ yielded = PathsFrom(lower_bound, Len(yielded))
        /\ seq_call.op = "iter" => iter_index = Some(lower_bound - 1)
        /\ seq_call.op = "next" =>
               seq_call.err \notin {"IndicesMustBeNonnegative", "IndexOutOfBounds"}
        /\ (seq_call.op = "next" /\ seq_call.err = "StopIteration") =>
               Len(yielded) = upper_bound - lower_bound + 1

\* Where C6 fails: it holds of every sequence whose lower bound is not
\* negative (a negative lower bound is stored by the lower_bound setter and
\* refused by gen_path).
IterationYieldsRangeFromZero == (immutable_bounds \/ lower_bound >= 0) => C6_IterationYieldsRange

(***************************************************************************)
(* Attribute and AttributeSchema                                           *)
(***************************************************************************)

\* A Python value carries its type: a string is [str |-> s], a number is
\* [float |-> n], a boolean is [bool |-> b].
Str(s) == [str |-> s]
Float(n) == [float |-> n]
Bool(b) == [bool |-> b]

\* Attribute.__init__ with each subclass's parse_value: a categorical value
\* is stored as given (a string here), a numeric one as float(value), a
\* boolean one as bool(value)
CategoricalAttribute(name, value) ==
    [type |-> "CategoricalAttribute", name |-> name, value |-> Str(value)]
NumericAttribute(name, value) ==
    [type |-> "NumericAttribute", name |-> name, value |-> Float(value)]
BooleanAttribute(name, value) ==
    [type |-> "BooleanAttribute", name |-> name, value |-> Bool(value)]

\* the attributes callers construct
Attrs == {CategoricalAttribute("a", "x"), CategoricalAttribute("a", "y"),
          NumericAttribute("b", 0), NumericAttribute("b", 1),
          NumericAttribute("b", 2), BooleanAttribute("b", TRUE)}

\* the empty schema objects (the uuid, a random identifier, is left out)
CategoricalAttributeSchema(name) ==
    [type |-> "CategoricalAttribute", name |-> name, categories |-> {}]
NumericAttributeSchema(name) ==
    [type |-> "NumericAttribute", name |-> name, range |-> <<>>]
BooleanAttributeSchema(name) ==
    [type |-> "BooleanAttribute", name |-> name]

\* attr.get_schema_cls()(name)
get_schema_cls(attr, name) ==
    CASE attr.type = "CategoricalAttribute" -> CategoricalAttributeSchema(name)
      [] attr.type = "NumericAttribute" -> NumericAttributeSchema(name)
      [] attr.type = "BooleanAttribute" -> BooleanAttributeSchema(name)

\* AttributeSchema.validate_type: TRUE when it does not raise
validate_type(attr_schema, attr) == attr.type = attr_schema.type

\* <Variant>AttributeSchema.is_valid_value
is_valid_value(attr_schema, value) ==
    CASE attr_schema.type = "CategoricalAttribute" ->
             value \in attr_schema.categories
      [] attr_schema.type = "NumericAttribute" ->
             IF attr_schema.range = <<>> THEN FALSE
             ELSE /\ value.float >= attr_schema.range[1].float
                  /\ value.float <= attr_schema.range[2].float
      [] attr_schema.type = "BooleanAttribute" ->
             DOMAIN value = {"bool"}

\* add_attribute where the numeric variant stores (value, value) over a set
\* range instead of widening it
AttributeSchema_add_attribute_resetting(attr_schema, attr) ==
    IF ~validate_type(attr_schema, attr)
    THEN [err |-> "TypeMismatch", schema |-> attr_schema]
    ELSE [err |-> NoError,
          schema |->
            CASE attr_schema.type = "CategoricalAttribute" ->
                     [attr_schema EXCEPT !.categories = @ \cup {attr.value}]
              [] attr_schema.type = "NumericAttribute" ->
                     [attr_schema EXCEPT !.range = <<attr.value, attr.value>>]
              [] attr_schema.type = "BooleanAttribute" -> attr_schema]

\* <Variant>AttributeSchema.add_attribute: the error, and the schema it leaves
AttributeSchema_add_attribute(attr_schema, attr) ==
    IF ~validate_type(attr_schema, attr)
    THEN [err |-> "TypeMismatch", schema |-> attr_schema]
    ELSE [err |-> NoError,
          schema |->
            CASE attr_schema.type = "CategoricalAttribute" ->
                     [attr_schema EXCEPT !.categories = @ \cup {attr.value}]
              [] attr_schema.type = "NumericAttribute" ->
                     IF attr_schema.range = <<>>
                     THEN [attr_schema EXCEPT !.range = <<attr.value, attr.value>>]
                     ELSE [attr_schema EXCEPT !.range =
                              <<Float(Min(@[1].float, attr.value.float)),
                                Float(Max(@[2].float, attr.value.float))>>]
              [] attr_schema.type = "BooleanAttribute" -> attr_schema]

\* merge_schema where the numeric variant takes the argument's range
AttributeSchema_merge_schema_overwriting(attr_schema, other) ==
    IF attr_schema.type = "NumericAttribute" /\ other.type = "NumericAttribute"
    THEN [err |-> NoError, schema |-> [attr_schema EXCEPT !.range = other.range]]
    ELSE [err |-> NoError, schema |-> attr_schema]

\* <Variant>AttributeSchema.merge_schema: the error, and the schema it leaves.
\* No variant checks the type of its argument: reading schema.categories or
\* schema.range of a schema that has none raises AttributeError, and
\* schema.range[0] of an unset range (the empty tuple) raises IndexError.
AttributeSchema_merge_schema(attr_schema, other) ==
    CASE attr_schema.type = "CategoricalAttribute" ->
             IF other.type # "CategoricalAttribute"
             THEN [err |-> "AttributeError", schema |-> attr_schema]
             ELSE [err |-> NoError,
                   schema |-> [attr_schema EXCEPT !.categories = @ \cup other.categories]]
      [] attr_schema.type = "NumericAttribute" ->
             IF other.type # "NumericAttribute"
             THEN [err |-> "AttributeError", schema |-> attr_schema]
             ELSE IF attr_schema.range = <<>>
             THEN [err |-> NoError, schema |-> [attr_schema EXCEPT !.range = other.range]]
             ELSE IF other.range = <<>>
             THEN [err |-> "IndexError", schema |-> attr_schema]
             ELSE [err |-> NoError,
                   schema |-> [attr_schema EXCEPT !.range =
                                  <<Float(Min(@[1].float, other.range[1].float)),
                                    Float(Max(@[2].float, other.range[2].float))>>]]
      [] attr_schema.type = "BooleanAttribute" ->
             [err |-> NoError, schema |-> attr_schema]

\* ---- two AttributeSchema objects, "a" and "b", and the calls on them

\* the schema objects as constructed: of any variant, empty
NewAttributeSchemas ==
    {CategoricalAttributeSchema("a"), NumericAttributeSchema("a"),
     BooleanAttributeSchema("a")}

AsInit ==
    /\ schema_a \in NewAttributeSchemas
    /\ schema_b \in NewAttributeSchemas
    /\ as_call = [op |-> "init", self |-> None, arg |-> None, err |-> NoError]

SchemaObjects == {"a", "b"}
\* the object of that name, before and after a step
SchemaObject(t) == IF t = "a" THEN schema_a ELSE schema_b
SchemaObjectNext(t) == IF t = "a" THEN schema_a' ELSE schema_b'

\* t.add_attribute(attr)
AsAddAttribute(t, attr) ==
    LET r == AttributeSchema_add_attribute(SchemaObject(t), attr) IN
    /\ schema_a' = IF t = "a" THEN r.schema ELSE schema_a
    /\ schema_b' = IF t = "b" THEN r.schema ELSE schema_b
    /\ as_call' = [op |-> "add_attribute", self |-> Some(t), arg |-> Some(attr),
                   err |-> r.err]
    /\ UNCHANGED notAs

\* t.merge_schema(o), where o may be t itself
AsMergeSchema(t, o) ==
    LET r == AttributeSchema_merge_schema(SchemaObject(t), SchemaObject(o)) IN
    /\ schema_a' = IF t = "a" THEN r.schema ELSE schema_a
    /\ schema_b' = IF t = "b" THEN r.schema ELSE schema_b
    /\ as_call' = [op |-> "merge_schema", self |-> Some(t), arg |-> Some(o),
                   err |-> r.err]
    /\ UNCHANGED notAs

NextAs ==
    \/ \E t \in SchemaObjects, attr \in Attrs : AsAddAttribute(t, attr)
    \/ \E t \in SchemaObjects, o \in SchemaObjects : AsMergeSchema(t, o)

InitAs == AsInit /\ SeqIdle /\ CtrIdle /\ CsIdle /\ RecIdle

SpecAs == InitAs /\ [][NextAs]_vars

(***************************************************************************)
(* Properties of AttributeSchema                                           *)
(***************************************************************************)

\* the smallest range containing two ranges, where an unset range (the empty
\* tuple) contains nothing
Hull(r1, r2) ==
    IF r1 = <<>> THEN r2
    ELSE IF r2 = <<>> THEN r1
    ELSE <<Float(Min(r1[1].float, r2[1].float)), Float(Max(r1[2].float, r2[2].float))>>

\* C13: merge_schema between attribute schemas of the same variant.  Numeric:
\* a.merge_schema(b) and b.merge_schema(a) both succeed and leave their
\* receivers with the same range, the smallest range containing both, where
\* an unset range on either side absorbs the other's.  Categorical: the
\* receiver's categories become the union of the two sets, and merging a
\* schema into itself leaves its categories unchanged.
C13_MergeIsHullOrUnion ==
    LET ab == AttributeSchema_merge_schema(schema_a, schema_b)
        ba == AttributeSchema_merge_schema(schema_b, schema_a)
        aa == AttributeSchema_merge_schema(schema_a, schema_a)
    IN
    /\ (schema_a.type = "NumericAttribute" /\ schema_b.type = "NumericAttribute") =>
           /\ ab.err = NoError
           /\ ba.err = NoError
           /\ ab.schema.range = Hull(schema_a.range, schema_b.range)
           /\ ba.schema.range = ab.schema.range
    /\ (schema_a.type = "CategoricalAttribute" /\ schema_b.type = "CategoricalAttribute") =>
           /\ ab.err = NoError
           /\ ab.schema.categories = schema_a.categories \cup schema_b.categories
    /\ schema_a.type = "CategoricalAttribute" =>
           (aa.err = NoError /\ aa.schema.categories = schema_a.categories)

\* Where C13 fails: it holds of every pair of schemas but a numeric receiver
\* with a set range merging a numeric argument with an unset one.
MergeIsHullOrUnionButIntoSet ==
    LET SetUnset(x, y) == /\ x.type = "NumericAttribute" /\ y.type = "NumericAttribute"
                          /\ x.range # <<>> /\ y.range = <<>>
    IN  (~SetUnset(schema_a, schema_b) /\ ~SetUnset(schema_b, schema_a))
            => C13_MergeIsHullOrUnion

\* the step is a call on an attribute schema; its receiver before and after
IsAsCall(op) == as_call'.op = op
AsSelf == SchemaObject(as_call'.self[1])
AsSelfNext == SchemaObjectNext(as_call'.self[1])

\* C14: schema.add_attribute(attr) fails with a type mismatch and leaves the
\* schema unchanged when attr's variant differs from the schema's; otherwise
\* it succeeds, attr's value is valid afterwards, and the categorical set is
\* the old set plus the value, the numeric range is (v, v) if it was unset
\* and (min(lo, v), max(hi, v)) otherwise, and a boolean schema is unchanged.
C14_AddAttributeIncorporates ==
    [][IsAsCall("add_attribute") =>
         LET attr == as_call'.arg[1]
             v == attr.value
         IN
         IF attr.type # AsSelf.type
         THEN as_call'.err = "TypeMismatch" /\ AsSelfNext = AsSelf
         ELSE /\ as_call'.err = NoError
              /\ is_valid_value(AsSelfNext, v)
              /\ AsSelfNext.type = AsSelf.type
              /\ AsSelf.type = "CategoricalAttribute" =>
                     AsSelfNext.categories = AsSelf.categories \cup {v}
              /\ AsSelf.type = "NumericAttribute" =>
                     AsSelfNext.range =
                        IF AsSelf.range = <<>> THEN <<v, v>>
                        ELSE <<Float(Min(AsSelf.range[1].float, v.float)),
                               Float(Max(AsSelf.range[2].float, v.float))>>
              /\ AsSelf.type = "BooleanAttribute" => AsSelfNext = AsSelf
      ]_vars

\* add_attribute has widened a numeric schema's range by a second value
C14_Witness ==
    /\ as_call.op = "add_attribute"
    /\ as_call.err = NoError
    /\ as_call.self = Some("a")
    /\ schema_a.type = "NumericAttribute"
    /\ schema_a.range = <<Float(0), Float(2)>>
    /\ as_call.arg[1].value = Float(0)

\* the values an attribute of the schema's variant can hold
ValuesOf(attr_schema) ==
    CASE attr_schema.type = "CategoricalAttribute" -> {Str("x"), Str("y"), Str("z")}
      [] attr_schema.type = "NumericAttribute" -> {Float(n) : n \in -1 .. 3}
      [] attr_schema.type = "BooleanAttribute" -> {Bool(TRUE), Bool(FALSE)}

\* C15: an AttributeSchema never shrinks: across add_attribute and
\* merge_schema calls, successful or failed, every value valid before a call
\* is valid after it, and a numeric range that is set never becomes unset.
C15_SchemaNeverShrinks ==
    [][\A t \in SchemaObjects :
         LET old == SchemaObject(t)
             new == SchemaObjectNext(t)
         IN  /\ new.type = old.type
             /\ \A v \in ValuesOf(old) :
                    is_valid_value(old, v) => is_valid_value(new, v)
             /\ (old.type = "NumericAttribute" /\ old.range # <<>>) =>
                    new.range # <<>>
      ]_vars

\* merge_schema has widened a set numeric range by another set range
C15_Witness ==
    /\ as_call.op = "merge_schema"
    /\ as_call.err = NoError
    /\ as_call.self = Some("a")
    /\ as_call.arg = Some("b")
    /\ schema_a.type = "NumericAttribute"
    /\ schema_b.type = "NumericAttribute"
    /\ schema_a.range = <<Float(0), Float(2)>>
    /\ schema_b.range = <<Float(1), Float(2)>>

(***************************************************************************)
(* AttributeContainerSchema: the dictionary self.schema, a function from   *)
(* the names it has to their AttributeSchema.                              *)
(***************************************************************************)

\* AttributeContainerSchema(): an empty dictionary
EmptyContainerSchema == [n \in {} |-> None]

has_attribute(cs, name) == name \in DOMAIN cs

\* self.schema[name] = entry
SetEntry(cs, name, entry) ==
    [n \in (DOMAIN cs) \cup {name} |-> IF n = name THEN entry ELSE cs[n]]

\* validate_attribute checking the name and the type only
validate_attribute_no_value(cs, attr) ==
    IF ~has_attribute(cs, attr.name) THEN "NameNotFound"
    ELSE IF ~validate_type(cs[attr.name], attr) THEN "TypeMismatch"
    ELSE NoError

\* AttributeContainerSchema.validate_attribute: the error it raises, if any
validate_attribute(cs, attr) ==
    IF ~has_attribute(cs, attr.name) THEN "NameNotFound"
    ELSE IF ~validate_type(cs[attr.name], attr) THEN "TypeMismatch"
    ELSE IF ~is_valid_value(cs[attr.name], attr.value) THEN "ValueNotAllowed"
    ELSE NoError

\* AttributeContainerSchema.add_attribute: the error, and the dictionary it leaves
add_attribute(cs, attr) ==
    LET name == attr.name
        cs1 == IF name \notin DOMAIN cs
               THEN SetEntry(cs, name, get_schema_cls(attr, name))
               ELSE cs
        r == AttributeSchema_add_attribute(cs1[name], attr)
    IN  [err |-> r.err, schema |-> SetEntry(cs1, name, r.schema)]

\* AttributeContainerSchema.add_attributes: the error, the dictionary it
\* leaves, and the value it returns (the method has no return statement)
RECURSIVE add_attributes(_, _)
add_attributes(cs, as) ==
    IF as = <<>> THEN [err |-> NoError, schema |-> cs, ret |-> None]
    ELSE LET r == add_attribute(cs, Head(as)) IN
         IF r.err # NoError
         THEN [err |-> r.err, schema |-> r.schema, ret |-> None]
         ELSE add_attributes(r.schema, Tail(as))

\* AttributeContainerSchema.build_active_schema: cls().add_attributes(attrs),
\* the error raised and the value returned
build_active_schema(as) ==
    LET r == add_attributes(EmptyContainerSchema, as) IN
    [err |-> r.err, ret |-> r.ret]

\* the schemas callers build, by add_attribute, to pass to set_schema
SchemaInputs ==
    LET built == {add_attributes(EmptyContainerSchema, as) :
                    as \in {<<>>} \cup {<<a>> : a \in Attrs}
                           \cup {<<a, b>> : a \in Attrs, b \in Attrs}}
    IN  {r.schema : r \in {b \in built : b.err = NoError}}

(***************************************************************************)
(* AttributeContainer                                                      *)
(***************************************************************************)

\* Container.add (eta.core.serial): the element is appended
Container_add(elements, attr) == Append(elements, attr)

\* Container.add_container (eta.core.serial): the other container's elements
\* are appended in order
Container_add_container(elements, other) == elements \o other

\* the first error validate_attribute raises over the elements, in order
RECURSIVE validate_all(_, _)
validate_all(cs, as) ==
    IF as = <<>> THEN NoError
    ELSE LET e == validate_attribute(cs, Head(as)) IN
         IF e # NoError THEN e ELSE validate_all(cs, Tail(as))

has_schema(sch) == sch # None

\* AttributeContainer._validate_attribute
container_validate_attribute(sch, attr) ==
    IF has_schema(sch) THEN validate_attribute(sch[1], attr) ELSE NoError

\* the loop of add_container, and AttributeContainer._validate_schema
container_validate_all(sch, as) ==
    IF has_schema(sch) THEN validate_all(sch[1], as) ELSE NoError

\* add_container appending the elements that precede the first invalid one
add_container_partial(sch, elements, other) ==
    LET RECURSIVE go(_, _)
        go(es, os) ==
            IF os = <<>> THEN [err |-> NoError, elements |-> es]
            ELSE LET e == container_validate_attribute(sch, Head(os)) IN
                 IF e # NoError THEN [err |-> e, elements |-> es]
                 ELSE go(Container_add(es, Head(os)), Tail(os))
    IN  go(elements, other)

\* AttributeContainer.add_container: the error, and the elements it leaves
add_container(sch, elements, other) ==
    LET e == container_validate_all(sch, other) IN
    IF e # NoError THEN [err |-> e, elements |-> elements]
    ELSE [err |-> NoError, elements |-> Container_add_container(elements, other)]

\* add refusing, where no schema is enforced, an attribute whose name the
\* container already holds with another variant
add_checking_held(sch, elements, attr) ==
    LET e == IF has_schema(sch) THEN validate_attribute(sch[1], attr)
             ELSE IF \E i \in 1 .. Len(elements) :
                         /\ elements[i].name = attr.name
                         /\ elements[i].type # attr.type
                  THEN "TypeMismatch" ELSE NoError
    IN  IF e # NoError THEN [err |-> e, elements |-> elements]
        ELSE [err |-> NoError, elements |-> Container_add(elements, attr)]

\* AttributeContainer.add: the error, and the elements it leaves
add(sch, elements, attr) ==
    LET e == container_validate_attribute(sch, attr) IN
    IF e # NoError THEN [err |-> e, elements |-> elements]
    ELSE [err |-> NoError, elements |-> Container_add(elements, attr)]

\* AttributeContainer.set_schema: the schema is attached, then the elements
\* are validated against it
set_schema(elements, new_schema) ==
    [schema |-> new_schema, err |-> container_validate_all(new_schema, elements)]

\* the containers passed to add_container
Others == {<<>>} \cup {<<a>> : a \in Attrs} \cup {<<a, b>> : a \in Attrs, b \in Attrs}

\* AttributeContainer(): no elements, no schema
CtrInit ==
    /\ attrs = <<>>
    /\ schema = None
    /\ ctr_call = [op |-> "init", arg |-> None, err |-> NoError, ret |-> None]

\* container.add(attr)
Add(attr) ==
    LET r == add(schema, attrs, attr) IN
    /\ Len(r.elements) <= MaxLen
    /\ attrs' = r.elements
    /\ ctr_call' = [op |-> "add", arg |-> Some(attr), err |-> r.err, ret |-> None]
    /\ UNCHANGED schema
    /\ UNCHANGED notCtr

\* container.add_container(other)
AddContainer(other) ==
    LET r == add_container(schema, attrs, other) IN
    /\ Len(r.elements) <= MaxLen
    /\ attrs' = r.elements
    /\ ctr_call' = [op |-> "add_container", arg |-> Some(other), err |-> r.err,
                    ret |-> None]
    /\ UNCHANGED schema
    /\ UNCHANGED notCtr

\* container.get_active_schema()
GetActiveSchema ==
    LET r == build_active_schema(attrs) IN
    /\ ctr_call' = [op |-> "get_active_schema", arg |-> None, err |-> r.err,
                    ret |-> r.ret]
    /\ UNCHANGED <<attrs, schema>>
    /\ UNCHANGED notCtr

\* container.set_schema(s)
SetSchema(s) ==
    LET r == set_schema(attrs, Some(s)) IN
    /\ schema' = r.schema
    /\ ctr_call' = [op |-> "set_schema", arg |-> Some(s), err |-> r.err, ret |-> None]
    /\ UNCHANGED attrs
    /\ UNCHANGED notCtr

\* container.freeze_schema(): set_schema(get_active_schema())
FreezeSchema ==
    LET active == build_active_schema(attrs) IN
    /\ IF active.err # NoError
       THEN /\ ctr_call' = [op |-> "freeze_schema", arg |-> None, err |-> active.err,
                            ret |-> None]
            /\ UNCHANGED schema
       ELSE LET r == set_schema(attrs, active.ret) IN
            /\ schema' = r.schema
            /\ ctr_call' = [op |-> "freeze_schema", arg |-> None, err |-> r.err,
                            ret |-> None]
    /\ UNCHANGED attrs
    /\ UNCHANGED notCtr

\* container.remove_schema()
RemoveSchema ==
    /\ schema' = None
    /\ ctr_call' = [op |-> "remove_schema", arg |-> None, err |-> NoError, ret |-> None]
    /\ UNCHANGED attrs
    /\ UNCHANGED notCtr

NextCtr ==
    \/ \E attr \in Attrs : Add(attr)
    \/ \E other \in Others : AddContainer(other)
    \/ \E s \in SchemaInputs : SetSchema(s)
    \/ GetActiveSchema
    \/ FreezeSchema
    \/ RemoveSchema

InitCtr == CtrInit /\ SeqIdle /\ AsIdle /\ CsIdle /\ RecIdle

SpecCtr == InitCtr /\ [][NextCtr]_vars

(***************************************************************************)
(* AttributeContainerSchema objects.  A dictionary entry is a reference to *)
(* an AttributeSchema object, and merge_schema stores the argument's own   *)
(* objects in the receiver, so the objects live in a heap and two          *)
(* dictionaries can refer to the same one.  The identity of an object is   *)
(* the container schema that created it and the name it was created for    *)
(* (a dictionary never drops or replaces an entry, so a container schema   *)
(* creates at most one object per name).                                   *)
(***************************************************************************)

Ref(owner, name) == <<owner, name>>

\* the heap with obj stored at ref
HeapSet(h, ref, obj) ==
    [r \in (DOMAIN h) \cup {ref} |-> IF r = ref THEN obj ELSE h[r]]

\* add_attribute replacing an entry of another variant by a new one of the
\* attribute's variant
cs_add_attribute_retyping(h, dicts, self, attr) ==
    LET name == attr.name
        ref == Ref(self, name)
        fresh == name \notin DOMAIN dicts[self]
                    \/ h[dicts[self][name]].type # attr.type
        h1 == IF fresh THEN HeapSet(h, ref, get_schema_cls(attr, name)) ELSE h
        d1 == IF fresh THEN SetEntry(dicts[self], name, ref) ELSE dicts[self]
        r == AttributeSchema_add_attribute(h1[d1[name]], attr)
    IN  [err |-> r.err,
         heap |-> HeapSet(h1, d1[name], r.schema),
         dicts |-> [dicts EXCEPT ![self] = d1]]

\* AttributeContainerSchema.add_attribute: the error, and the heap and the
\* dictionaries it leaves
cs_add_attribute(h, dicts, self, attr) ==
    LET name == attr.name
        fresh == name \notin DOMAIN dicts[self]
        ref == IF fresh THEN Ref(self, name) ELSE dicts[self][name]
        h1 == IF fresh THEN HeapSet(h, ref, get_schema_cls(attr, name)) ELSE h
        d1 == IF fresh THEN SetEntry(dicts[self], name, ref) ELSE dicts[self]
        r == AttributeSchema_add_attribute(h1[ref], attr)
    IN  [err |-> r.err,
         heap |-> HeapSet(h1, ref, r.schema),
         dicts |-> [dicts EXCEPT ![self] = d1]]

\* AttributeContainerSchema.add_attributes: add_attribute for each attribute
\* in turn, up to the first that raises
RECURSIVE cs_add_attributes(_, _, _, _)
cs_add_attributes(h, dicts, self, as) ==
    IF as = <<>> THEN [err |-> NoError, heap |-> h, dicts |-> dicts]
    ELSE LET r == cs_add_attribute(h, dicts, self, Head(as)) IN
         IF r.err # NoError THEN r
         ELSE cs_add_attributes(r.heap, r.dicts, self, Tail(as))

\* AttributeContainerSchema.merge_schema: for each name of the argument, in
\* the order the argument's dictionary iterates (names), the receiver adopts
\* the argument's object or merges it into its own, up to the first merge
\* that raises
RECURSIVE cs_merge_schema(_, _, _, _, _)
cs_merge_schema(h, dicts, self, other, names) ==
    IF names = <<>> THEN [err |-> NoError, heap |-> h, dicts |-> dicts]
    ELSE LET name == Head(names) IN
         IF name \notin DOMAIN dicts[self]
         THEN cs_merge_schema(
                  h, [dicts EXCEPT ![self] = SetEntry(@, name, dicts[other][name])],
                  self, other, Tail(names))
         ELSE LET ref == dicts[self][name]
                  r == AttributeSchema_merge_schema(h[ref], h[dicts[other][name]])
              IN  IF r.err # NoError
                  THEN [err |-> r.err, heap |-> h, dicts |-> dicts]
                  ELSE cs_merge_schema(HeapSet(h, ref, r.schema), dicts,
                                       self, other, Tail(names))

\* the orders in which a dictionary with these keys can iterate
Orders(keys) ==
    {o \in UNION {[1 .. n -> keys] : n \in {Cardinality(keys)}} :
        \A i, j \in DOMAIN o : i # j => o[i] # o[j]}

\* the two container schemas
ContainerSchemas == {"A", "B"}

\* the attributes callers pass to them: two names, each held by attributes of
\* two variants
CsAttrs == {CategoricalAttribute("a", "x"), CategoricalAttribute("a", "y"),
            NumericAttribute("a", 1),
            NumericAttribute("b", 0), BooleanAttribute("b", TRUE)}

\* the containers callers pass to add_attributes
CsAttrLists == {<<a1, a2>> : a1 \in CsAttrs, a2 \in CsAttrs}

\* AttributeContainerSchema(), twice
CsInit ==
    /\ heap = <<>>
    /\ cschemas = [c \in ContainerSchemas |-> EmptyContainerSchema]
    /\ cs_call = [op |-> "init", self |-> None, arg |-> None, err |-> NoError]
    /\ merged = {}

\* self.add_attribute(attr)
CsAddAttribute(self, attr) ==
    LET r == cs_add_attribute(heap, cschemas, self, attr) IN
    /\ heap' = r.heap
    /\ cschemas' = r.dicts
    /\ cs_call' = [op |-> "add_attribute", self |-> Some(self), arg |-> Some(attr),
                   err |-> r.err]
    /\ UNCHANGED merged
    /\ UNCHANGED notCs

\* self.add_attributes(as)
CsAddAttributes(self, as) ==
    LET r == cs_add_attributes(heap, cschemas, self, as) IN
    /\ heap' = r.heap
    /\ cschemas' = r.dicts
    /\ cs_call' = [op |-> "add_attributes", self |-> Some(self), arg |-> Some(as),
                   err |-> r.err]
    /\ UNCHANGED merged
    /\ UNCHANGED notCs

\* self.merge_schema(other), where other may be self
CsMergeSchema(self, other) ==
    \E names \in Orders(DOMAIN cschemas[other]) :
        LET r == cs_merge_schema(heap, cschemas, self, other, names) IN
        /\ heap' = r.heap
        /\ cschemas' = r.dicts
        /\ cs_call' = [op |-> "merge_schema", self |-> Some(self),
                       arg |-> Some(other), err |-> r.err]
        /\ merged' = IF self = other THEN merged ELSE merged \cup {<<self, other>>}
        /\ UNCHANGED notCs

NextCs ==
    \/ \E self \in ContainerSchemas, attr \in CsAttrs : CsAddAttribute(self, attr)
    \/ \E self \in ContainerSchemas, as \in CsAttrLists : CsAddAttributes(self, as)
    \/ \E self \in ContainerSchemas, other \in ContainerSchemas :
           CsMergeSchema(self, other)

InitCs == CsInit /\ SeqIdle /\ CtrIdle /\ AsIdle /\ RecIdle

SpecCs == InitCs /\ [][NextCs]_vars

(***************************************************************************)
(* Properties of AttributeContainerSchema                                  *)
(***************************************************************************)

\* the entry of container schema c for name n, before and after a step
Entry(c, n) == heap[cschemas[c][n]]
EntryNext(c, n) == heap'[cschemas'[c][n]]

\* C16: in an AttributeContainerSchema the entry for a name is created by the
\* first attribute with that name and typed by that attribute's variant;
\* whatever add_attribute, add_attributes and merge_schema do afterwards, the
\* entry stays and keeps its variant; add_attribute with an attribute of
\* another variant fails with a type mismatch and leaves the entry unchanged.
C16_EntryVariantFixed ==
    [][/\ \A c \in ContainerSchemas : \A n \in DOMAIN cschemas[c] :
              /\ n \in DOMAIN cschemas'[c]
              /\ EntryNext(c, n).type = Entry(c, n).type
       /\ cs_call'.op = "add_attribute" =>
              LET c == cs_call'.self[1]
                  attr == cs_call'.arg[1]
                  n == attr.name
              IN  IF n \notin DOMAIN cschemas[c]
                  THEN /\ cs_call'.err = NoError
                       /\ n \in DOMAIN cschemas'[c]
                       /\ EntryNext(c, n).type = attr.type
                  ELSE IF Entry(c, n).type # attr.type
                  THEN /\ cs_call'.err = "TypeMismatch"
                       /\ cschemas'[c] = cschemas[c]
                       /\ EntryNext(c, n) = Entry(c, n)
                  ELSE cs_call'.err = NoError
      ]_vars

\* add_attribute has refused a numeric "a" on a container schema whose
\* categorical entry "a" came from a merge_schema
C16_Witness ==
    /\ cs_call.op = "add_attribute"
    /\ cs_call.self = Some("A")
    /\ cs_call.err = "TypeMismatch"
    /\ cs_call.arg[1] = NumericAttribute("a", 1)
    /\ cschemas["A"]["a"] = Ref("B", "a")
    /\ heap[Ref("B", "a")].type = "CategoricalAttribute"

(***************************************************************************)
(* Properties of AttributeContainer                                        *)
(***************************************************************************)

\* the step is a call of add or of add_container, and its argument
IsAdd == ctr_call'.op = "add"
IsAddContainer == ctr_call'.op = "add_container"
CallArg == ctr_call'.arg[1]

\* C7: with an enforced schema, add(attr) validates before it mutates: it
\* fails as name-not-found if attr.name is not in the schema, as a type
\* mismatch if attr's variant differs from the entry's, as value-not-allowed
\* if the entry's is_valid_value(attr.value) is false; attr is appended at the
\* end, the container otherwise unchanged, only when validation succeeds, and
\* on failure the elements are unchanged.
C7_AddValidatesFirst ==
    [][(IsAdd /\ schema # None) =>
            LET attr == CallArg
                cs == schema[1]
                known == attr.name \in DOMAIN cs
                typed == known /\ cs[attr.name].type = attr.type
                valid == typed /\ is_valid_value(cs[attr.name], attr.value)
            IN  /\ ~known => ctr_call'.err = "NameNotFound"
                /\ (known /\ ~typed) => ctr_call'.err = "TypeMismatch"
                /\ (typed /\ ~valid) => ctr_call'.err = "ValueNotAllowed"
                /\ valid => ctr_call'.err = NoError
                /\ ctr_call'.err = NoError => attrs' = Append(attrs, attr)
                /\ ctr_call'.err # NoError => attrs' = attrs
                /\ schema' = schema
      ]_vars

\* a non-empty container with a schema that has refused a value
C7_Witness ==
    /\ schema # None
    /\ attrs # <<>>
    /\ ctr_call.op = "add"
    /\ ctr_call.err = "ValueNotAllowed"

\* the positions of other whose attribute the schema refuses
Refused(cs, other) ==
    {i \in 1 .. Len(other) : validate_attribute(cs, other[i]) # NoError}

\* C8: add_container(other) on a schema-enforcing container is atomic: if any
\* element of other fails validation, the receiver's elements are what they
\* were (not even the valid elements before the failing one are added) and
\* the first failing element's error is raised; if all validate, all of
\* other's elements are appended in order.
C8_AddContainerAtomic ==
    [][(IsAddContainer /\ schema # None) =>
            LET other == CallArg
                bad == Refused(schema[1], other)
            IN
            IF bad # {}
            THEN /\ attrs' = attrs
                 /\ \E i \in bad :
                        /\ \A j \in bad : i <= j
                        /\ ctr_call'.err = validate_attribute(schema[1], other[i])
            ELSE /\ attrs' = attrs \o other
                 /\ ctr_call'.err = NoError
      ]_vars

\* an add_container refused for its second element, the first being valid
C8_Witness ==
    /\ schema # None
    /\ ctr_call.op = "add_container"
    /\ ctr_call.err # NoError
    /\ Refused(schema[1], ctr_call.arg[1]) = {2}

\* attr's name, variant and value are within what the elements show: a
\* category some element of that name has, a number between two numbers some
\* elements of that name have, a boolean of a name some boolean element has
Observed(elements, attr) ==
    LET same == {i \in 1 .. Len(elements) :
                    elements[i].name = attr.name /\ elements[i].type = attr.type}
    IN  CASE attr.type = "CategoricalAttribute" ->
                 \E i \in same : elements[i].value = attr.value
          [] attr.type = "NumericAttribute" ->
                 \E i, j \in same :
                     /\ elements[i].value.float <= attr.value.float
                     /\ attr.value.float <= elements[j].value.float
          [] attr.type = "BooleanAttribute" -> same # {}

\* attr's name and variant are those of some element, its value is outside
OutOfObserved(elements, attr) ==
    /\ \E i \in 1 .. Len(elements) :
           elements[i].name = attr.name /\ elements[i].type = attr.type
    /\ \A i \in 1 .. Len(elements) :
           elements[i].name = attr.name => elements[i].type = attr.type
    /\ ~Observed(elements, attr)

\* C9: after freeze_schema() the enforced schema is the active schema of the
\* contents at freeze time: a following add of an attribute whose value is
\* outside the categories or range observed at freeze time fails as
\* value-not-allowed and appends nothing, and a following add of an attribute
\* whose name, variant and value are within what was observed succeeds.
C9_FreezeRestrictsAdd ==
    [][(/\ ctr_call.op = "freeze_schema"
        /\ ctr_call.err = NoError
        /\ IsAdd) =>
            LET attr == CallArg IN
            /\ OutOfObserved(attrs, attr) =>
                   (ctr_call'.err = "ValueNotAllowed" /\ attrs' = attrs)
            /\ Observed(attrs, attr) =>
                   (ctr_call'.err = NoError /\ attrs' = Append(attrs, attr))
      ]_vars

\* C10: build_active_schema(c), that is c.get_active_schema(), returns a
\* fresh AttributeContainerSchema, the fold of add_attribute over c's
\* attributes, on which validate_attribute succeeds for every attribute
\* currently in c.
C10_ActiveSchemaValidates ==
    (ctr_call.op = "get_active_schema" /\ ctr_call.err = NoError) =>
        /\ ctr_call.ret # None
        /\ \A i \in 1 .. Len(attrs) :
               validate_attribute(ctr_call.ret[1], attrs[i]) = NoError

\* Where C9 and C10 fail: the schema that add_attributes folds, and that
\* build_active_schema drops, does validate every attribute of the container.
FoldedSchemaValidates ==
    LET r == add_attributes(EmptyContainerSchema, attrs) IN
    r.err = NoError =>
        \A i \in 1 .. Len(attrs) : validate_attribute(r.schema, attrs[i]) = NoError

\* the step is a call of one of the container's mutating methods
IsMutatingCall ==
    ctr_call'.op \in {"add", "add_container", "set_schema", "freeze_schema"}

\* C11: every failing mutating call on an AttributeContainer (add,
\* add_container, set_schema, freeze_schema) leaves the container unchanged:
\* its elements and its enforced schema (and whether one is attached) are
\* after the failed call what they were before it; a set_schema(s) that
\* fails because an element violates s does not leave s attached.
C11_FailedCallChangesNothing ==
    [][(IsMutatingCall /\ ctr_call'.err # NoError) =>
           (attrs' = attrs /\ schema' = schema)]_vars

\* Where C11 fails: a failing add, add_container or freeze_schema does leave
\* the container unchanged; set_schema alone does not.
FailedCallButSetSchemaChangesNothing ==
    [][(IsMutatingCall /\ ctr_call'.op # "set_schema" /\ ctr_call'.err # NoError) =>
           (attrs' = attrs /\ schema' = schema)]_vars

\* C12: whenever no schema is enforced (none was set, or remove_schema() was
\* called), add(attr) appends attr unconditionally, for any attribute; this
\* stays so until set_schema or freeze_schema attaches a schema.
C12_NoSchemaAddsAnything ==
    [][/\ (IsAdd /\ schema = None) =>
              /\ ctr_call'.err = NoError
              /\ attrs' = Append(attrs, CallArg)
              /\ schema' = None
       /\ (schema = None /\ schema' # None) =>
              ctr_call'.op \in {"set_schema", "freeze_schema"}
      ]_vars

\* with no schema enforced, a boolean "b" has been added after a numeric "b",
\* which no schema accepts together
C12_Witness ==
    /\ schema = None
    /\ ctr_call.op = "add"
    /\ ctr_call.err = NoError
    /\ Len(attrs) = 2
    /\ attrs[1].name = attrs[2].name
    /\ attrs[1].type # attrs[2].type

(***************************************************************************)
(* DataRecords.  A record is a LabeledVideoRecord, a function from its     *)
(* field names to their values; getattr(r, field) is r[field].  Positions  *)
(* in the container count from 0, as Python's do.                          *)
(***************************************************************************)

LabeledVideoRecord(video_path, label) ==
    [video_path |-> video_path, label |-> label]

\* the records callers add, and the fields they name
Records == {LabeledVideoRecord(p, l) : p \in {"p", "q"}, l \in {"cat", "dog"}}
Fields == {"video_path", "label"}

\* the lists callers pass as keep_values or remove_values ("bird" is a label
\* that no record has), and the argument itself: a list, or None by default
ValueLists ==
    {<<>>, <<"cat">>, <<"p">>, <<"dog", "cat">>, <<"cat", "bird">>}
ValueArgs == {None} \cup {Some(l) : l \in ValueLists}

\* Python's truth value of such an argument: None and the empty list are false
Truthy(values) == values # None /\ values[1] # <<>>

\* the set of a list's items
Items(list) == {list[i] : i \in DOMAIN list}

\* lud[k].append(x) on a defaultdict(list)
DictAppend(lud, k, x) ==
    [key \in (DOMAIN lud) \cup {k} |->
        IF key # k THEN lud[key]
        ELSE IF k \in DOMAIN lud THEN Append(lud[k], x) ELSE <<x>>]

\* DataRecords.slice
slice(recs, field) == [i \in DOMAIN recs |-> recs[i][field]]

\* DataRecords.build_keyset; the list it returns has the set's items in an
\* order of the set's choosing, so the result is that set
build_keyset(recs, field) == {recs[i][field] : i \in DOMAIN recs}

\* the loop of build_lookup from the i-th record on; base is the position
\* the first record counts as
RECURSIVE LookupLoop(_, _, _, _, _)
LookupLoop(recs, field, i, base, lud) ==
    IF i > Len(recs) THEN lud
    ELSE LookupLoop(recs, field, i + 1, base,
                    DictAppend(lud, recs[i][field], i - 1 + base))

\* build_lookup counting positions from 1
build_lookup_from_one(recs, field) == LookupLoop(recs, field, 1, 1, <<>>)

\* DataRecords.build_lookup
build_lookup(recs, field) == LookupLoop(recs, field, 1, 0, <<>>)

\* DataRecords.build_subsets
RECURSIVE SubsetsLoop(_, _, _, _)
SubsetsLoop(recs, field, i, sss) ==
    IF i > Len(recs) THEN sss
    ELSE SubsetsLoop(recs, field, i + 1, DictAppend(sss, recs[i][field], recs[i]))
build_subsets(recs, field) == SubsetsLoop(recs, field, 1, <<>>)

\* Container.keep_inds: the elements at the given positions, in their order
\* in the container
RECURSIVE KeepLoop(_, _, _)
KeepLoop(recs, inds, i) ==
    IF i > Len(recs) THEN <<>>
    ELSE IF (i - 1) \in Items(inds)
         THEN <<recs[i]>> \o KeepLoop(recs, inds, i + 1)
         ELSE KeepLoop(recs, inds, i + 1)
keep_inds(recs, inds) == KeepLoop(recs, inds, 1)

\* inds += lud[v] for each v of the list
RECURSIVE IndsLoop(_, _)
IndsLoop(lud, list) ==
    IF list = <<>> THEN <<>> ELSE lud[Head(list)] \o IndsLoop(lud, Tail(list))

\* the orders in which cull's loop `for v in keep_values` can visit the
\* values to keep: the order of the list given as keep_values or, when
\* remove_values decides them, any order of the set
\* set(lud.keys()) - set(remove_values), which iterates in an order that
\* varies with the interpreter's hash seed.  None, like the empty list, is
\* false and is never iterated: both are the empty order here.
keep_orders(recs, field, keep_values, remove_values) ==
    IF Truthy(remove_values)
    THEN Orders((DOMAIN build_lookup(recs, field)) \ Items(remove_values[1]))
    ELSE IF keep_values = None THEN {<<>>} ELSE {keep_values[1]}

\* DataRecords.cull, its loop visiting the values to keep in the order keep:
\* the error, the records it leaves, the value returned and the positions
\* handed to keep_inds
cull(recs, field, keep) ==
    LET lud == build_lookup(recs, field) IN
    IF keep = <<>>
    THEN [err |-> "DataRecordsError", records |-> recs, ret |-> None, inds |-> None]
    ELSE IF \E v \in Items(keep) : v \notin DOMAIN lud
    THEN \* lud is a plain dict: lud[v] raises
         [err |-> "KeyError", records |-> recs, ret |-> None, inds |-> None]
    ELSE LET inds == IndsLoop(lud, keep)
             kept == keep_inds(recs, inds)
         IN  [err |-> NoError, records |-> kept, ret |-> Some(Len(kept)),
              inds |-> Some(inds)]

\* LabeledVideoRecord.from_dict: the required keys are read (KeyError if one
\* is missing), the optional key "group" is read if present, any other key
\* is dropped
LabeledVideoRecord_from_dict(d) ==
    IF ~({"video_path", "label"} \subseteq DOMAIN d)
    THEN [err |-> "KeyError", ret |-> None]
    ELSE [err |-> NoError,
          ret |-> Some(IF "group" \in DOMAIN d
                       THEN [video_path |-> d["video_path"], label |-> d["label"],
                             group |-> d["group"]]
                       ELSE LabeledVideoRecord(d["video_path"], d["label"]))]

\* DataRecords.from_dict: the records of d["records"], parsed in order, up
\* to the first that raises
RECURSIVE from_dict_loop(_)
from_dict_loop(dicts) ==
    IF dicts = <<>> THEN [err |-> NoError, ret |-> <<>>]
    ELSE LET r == LabeledVideoRecord_from_dict(Head(dicts)) IN
         IF r.err # NoError THEN [err |-> r.err, ret |-> <<>>]
         ELSE LET rest == from_dict_loop(Tail(dicts)) IN
              IF rest.err # NoError THEN rest
              ELSE [err |-> NoError, ret |-> <<r.ret[1]>> \o rest.ret]
from_dict(d) ==
    IF "records" \notin DOMAIN d THEN [err |-> "KeyError", ret |-> <<>>]
    ELSE from_dict_loop(d["records"])

\* Container.add_container: the other container's elements are appended
Records_add_container(recs, other) == recs \o other

\* DataRecords.add_dict: the error, the records it leaves and the value
\* returned
add_dict(recs, d) ==
    LET parsed == from_dict(d) IN
    IF parsed.err # NoError
    THEN [err |-> parsed.err, records |-> recs, ret |-> None]
    ELSE LET all == Records_add_container(recs, parsed.ret) IN
         [err |-> NoError, records |-> all, ret |-> Some(Len(all))]

\* the lists of at most n items of a set
ListsUpTo(set, n) == UNION {[1 .. k -> set] : k \in 0 .. n}

\* the record dictionaries callers pass: the records' own, one that lacks
\* the required "label", and one with a key that is not a field
RecordDicts ==
    {[video_path |-> r.video_path, label |-> r.label] : r \in Records}
        \cup {[video_path |-> "p"],
              [video_path |-> "q", label |-> "dog", notes |-> "n"]}

\* DataRecords(record_cls, records=[...]): by default no records
RecInit ==
    /\ records \in ListsUpTo(Records, MaxRecords)
    /\ rec_call = [op |-> "init", field |-> None, arg |-> Some(records),
                   err |-> NoError, ret |-> None, inds |-> None]

\* records.add_dict(d)
AddDict(d) ==
    LET r == add_dict(records, d) IN
    /\ records' = r.records
    /\ rec_call' = [op |-> "add_dict", field |-> None, arg |-> Some(d),
                    err |-> r.err, ret |-> r.ret, inds |-> None]
    /\ UNCHANGED notRec

\* records.add(record)
RecAdd(record) ==
    /\ Len(records) < MaxRecords
    /\ records' = Append(records, record)
    /\ rec_call' = [op |-> "add", field |-> None, arg |-> Some(record),
                    err |-> NoError, ret |-> None, inds |-> None]
    /\ UNCHANGED notRec

\* records.build_keyset(field), build_lookup(field), build_subsets(field)
\* and slice(field)
BuildKeyset(field) ==
    /\ rec_call' = [op |-> "build_keyset", field |-> Some(field), arg |-> None,
                    err |-> NoError, ret |-> Some(build_keyset(records, field)),
                    inds |-> None]
    /\ UNCHANGED records
    /\ UNCHANGED notRec
BuildLookup(field) ==
    /\ rec_call' = [op |-> "build_lookup", field |-> Some(field), arg |-> None,
                    err |-> NoError, ret |-> Some(build_lookup(records, field)),
                    inds |-> None]
    /\ UNCHANGED records
    /\ UNCHANGED notRec
BuildSubsets(field) ==
    /\ rec_call' = [op |-> "build_subsets", field |-> Some(field), arg |-> None,
                    err |-> NoError, ret |-> Some(build_subsets(records, field)),
                    inds |-> None]
    /\ UNCHANGED records
    /\ UNCHANGED notRec
Slice(field) ==
    /\ rec_call' = [op |-> "slice", field |-> Some(field), arg |-> None,
                    err |-> NoError, ret |-> Some(slice(records, field)),
                    inds |-> None]
    /\ UNCHANGED records
    /\ UNCHANGED notRec

\* records.cull(field, keep_values, remove_values)
Cull(field, keep_values, remove_values) ==
    \E keep \in keep_orders(records, field, keep_values, remove_values) :
        LET r == cull(records, field, keep) IN
        /\ records' = r.records
        /\ rec_call' = [op |-> "cull", field |-> Some(field),
                        arg |-> Some(<<keep_values, remove_values>>),
                        err |-> r.err, ret |-> r.ret, inds |-> r.inds]
        /\ UNCHANGED notRec

NextRec ==
    \/ \E record \in Records : RecAdd(record)
    \/ \E d \in {[records |-> l] :
                   l \in ListsUpTo(RecordDicts, MaxRecords - Len(records))} :
           AddDict(d)
    \/ \E field \in Fields : BuildKeyset(field)
    \/ \E field \in Fields : BuildLookup(field)
    \/ \E field \in Fields : BuildSubsets(field)
    \/ \E field \in Fields : Slice(field)
    \/ \E field \in Fields, keep_values \in ValueArgs, remove_values \in ValueArgs :
           Cull(field, keep_values, remove_values)

InitRec == RecInit /\ SeqIdle /\ CtrIdle /\ AsIdle /\ CsIdle

SpecRec == InitRec /\ [][NextRec]_vars

(***************************************************************************)
(* Properties of DataRecords                                               *)
(***************************************************************************)

\* the step is a call of cull; its arguments
IsCull == rec_call'.op = "cull"
CullField == rec_call'.field[1]
CullKeep == rec_call'.arg[1][1]
CullRemove == rec_call'.arg[1][2]

\* the keep-set the arguments of a cull resolve to: the values given to
\* keep, or every value present but those given to remove
ResolvedKeep ==
    IF CullKeep # None THEN Items(CullKeep[1])
    ELSE IF CullRemove # None
    THEN build_keyset(records, CullField) \ Items(CullRemove[1])
    ELSE {}

\* the records whose field value is in K, in their order in the container
RECURSIVE Retained(_, _, _)
Retained(recs, field, K) ==
    IF recs = <<>> THEN <<>>
    ELSE IF Head(recs)[field] \in K
         THEN <<Head(recs)>> \o Retained(Tail(recs), field, K)
         ELSE Retained(Tail(recs), field, K)

\* C17: cull fails with an argument error and leaves the records unchanged
\* when keep_values and remove_values are both supplied, when neither is,
\* and when the keep-set they resolve to is empty.
C17_CullRejectsArguments ==
    [][(IsCull /\ \/ (CullKeep # None /\ CullRemove # None)
                  \/ (CullKeep = None /\ CullRemove = None)
                  \/ ResolvedKeep = {}) =>
           (rec_call'.err = "DataRecordsError" /\ records' = records)]_vars

\* Where C17 fails: it holds of every call but those given both arguments.
CullRejectsNoOrEmptyArgument ==
    [][(IsCull /\ ~(CullKeep # None /\ CullRemove # None)
               /\ ((CullKeep = None /\ CullRemove = None) \/ ResolvedKeep = {})) =>
           (rec_call'.err = "DataRecordsError" /\ records' = records)]_vars

\* C18: a cull given one of keep_values and remove_values that resolve to a
\* non-empty keep-set K (the values given to keep, among them values that no
\* record holds, or the values present less those given to remove) succeeds,
\* leaves exactly the records whose field value is in K, in their original
\* relative order, and returns their number.
C18_CullKeepsK ==
    [][(IsCull /\ (CullKeep = None) # (CullRemove = None) /\ ResolvedKeep # {}) =>
           /\ rec_call'.err = NoError
           /\ records' = Retained(records, CullField, ResolvedKeep)
           /\ rec_call'.ret = Some(Len(records'))]_vars

\* Where C18 fails: a cull that succeeds, given one argument, does leave the
\* records of K in order and returns their number.
SuccessfulCullKeepsK ==
    [][(IsCull /\ (CullKeep = None) # (CullRemove = None)
               /\ rec_call'.err = NoError) =>
           /\ ResolvedKeep # {}
           /\ records' = Retained(records, CullField, ResolvedKeep)
           /\ rec_call'.ret = Some(Len(records'))]_vars

\* the step is a call of one of the lookups; its field
IsLookup(op) == rec_call'.op = op
LookupField == rec_call'.field[1]

\* the positions, counted from 0, of a list that hold the value k
Positions(list, k) == {i - 1 : i \in {j \in DOMAIN list : list[j] = k}}

\* the list is strictly ascending
Ascending(list) == \A i, j \in DOMAIN list : i < j => list[i] < list[j]

\* C19: build_lookup(field) maps each distinct field value k to the ascending
\* list of exactly the positions i with slice(field)[i] = k, so the lists
\* partition 0 .. n-1; its keys are the values build_keyset(field) returns
\* and the keys of build_subsets(field); none of these calls changes the
\* records.
C19_LookupPartitions ==
    [][LET sl == slice(records, LookupField)
           lud == build_lookup(records, LookupField)
           ret == rec_call'.ret[1]
       IN
       /\ (IsLookup("build_lookup") \/ IsLookup("build_keyset")
             \/ IsLookup("build_subsets") \/ IsLookup("slice")) =>
              (records' = records /\ rec_call'.err = NoError)
       /\ IsLookup("slice") =>
              (Len(ret) = Len(records)
                 /\ \A i \in DOMAIN records : ret[i] = records[i][LookupField])
       /\ IsLookup("build_lookup") =>
              /\ ret = lud
              /\ DOMAIN ret = Items(sl)
              /\ \A k \in DOMAIN ret :
                     Ascending(ret[k]) /\ Items(ret[k]) = Positions(sl, k)
              /\ UNION {Items(ret[k]) : k \in DOMAIN ret} = 0 .. (Len(records) - 1)
       /\ IsLookup("build_keyset") => ret = DOMAIN lud
       /\ IsLookup("build_subsets") =>
              /\ DOMAIN ret = DOMAIN lud
              /\ \A k \in DOMAIN ret :
                     ret[k] = [i \in DOMAIN lud[k] |-> records[lud[k][i] + 1]]
      ]_vars

\* build_lookup("label") was called on the records cat, dog, cat
C19_Witness ==
    /\ rec_call.op = "build_lookup"
    /\ rec_call.field = Some("label")
    /\ Len(records) = 3
    /\ slice(records, "label") = <<"cat", "dog", "cat">>
    /\ rec_call.ret[1]["cat"] = <<0, 2>>
    /\ rec_call.ret[1]["dog"] = <<1>>

(***************************************************************************)
(* Nested iterations over one DataFileSequence                             *)
(***************************************************************************)

\* the paths of the whole sequence, lower .. upper, in order
AllPaths == PathsFrom(lower_bound, upper_bound - lower_bound + 1)

\* C20: nested or interleaved iterations over the same DataFileSequence do
\* not interfere: whatever the other iteration does, each consumer's next()
\* returns the paths of lower, lower+1, ... in order, each once, and stops
\* (StopIteration, no other error) exactly after the path of upper.
C20_NestedIterationsIndependent ==
    \A k \in Consumers :
        (seq_call.op = "next" /\ iter_caller = k) =>
            /\ seq_call.err \in {NoError, "StopIteration"}
            /\ Yielded(k) = PathsFrom(lower_bound, Len(Yielded(k)))
            /\ Len(Yielded(k)) <= upper_bound - lower_bound + 1
            /\ seq_call.err = "StopIteration" => Yielded(k) = AllPaths

(***************************************************************************)
(* The invariant of schema enforcement                                     *)
(***************************************************************************)

\* every element of the container passes the enforced schema, if there is one
ElementsPassSchema ==
    has_schema(schema) =>
        \A i \in DOMAIN attrs : validate_attribute(schema[1], attrs[i]) = NoError

\* C21: in every reachable state in which an AttributeContainer has an
\* enforced schema, every attribute it holds passes that schema's
\* validate_attribute, after any sequence of add, add_container, set_schema,
\* freeze_schema and remove_schema calls, failed calls included.
C21_ElementsPassEnforcedSchema == ElementsPassSchema

\* Where C21 fails: every call but a set_schema that raises keeps the
\* invariant.
OnlyFailedSetSchemaBreaksIt ==
    [][(ElementsPassSchema /\ ~(ctr_call'.op = "set_schema" /\ ctr_call'.err # NoError))
           => ElementsPassSchema']_vars

(***************************************************************************)
(* The frame of AttributeContainerSchema.merge_schema                      *)
(***************************************************************************)

\* container schema c is after the step what it was before: the same names,
\* each with an entry of the same content
SchemaUntouched(c) ==
    /\ DOMAIN cschemas'[c] = DOMAIN cschemas[c]
    /\ \A n \in DOMAIN cschemas[c] : EntryNext(c, n) = Entry(c, n)

\* the step is a call on a container schema; its receiver
IsCsCall == cs_call'.op \in {"add_attribute", "add_attributes", "merge_schema"}
CsSelf == cs_call'.self[1]

\* C22: A.merge_schema(B) does not change B, and any add_attribute,
\* add_attributes or merge_schema call made on A afterwards leaves B's
\* entries (categories, ranges) as they were: A shares no mutable entry with
\* the schema that was merged into it.
C22_MergeSharesNothing ==
    [][IsCsCall =>
         \A c \in ContainerSchemas \ {CsSelf} :
             <<CsSelf, c>> \in merged' => SchemaUntouched(c)]_vars

\* Where C22 fails: merge_schema itself leaves its argument unchanged, and a
\* call on a container schema that holds no entry object of another's leaves
\* the others unchanged.
MergeLeavesArgumentAlone ==
    [][(cs_call'.op = "merge_schema" /\ cs_call'.arg[1] # CsSelf) =>
           SchemaUntouched(cs_call'.arg[1])]_vars
UnsharedCallsLeaveOtherSchemaAlone ==
    [][(IsCsCall /\ \A c \in ContainerSchemas \ {CsSelf} :
                       \A n \in (DOMAIN cschemas[c]) \cap (DOMAIN cschemas[CsSelf]) :
                           cschemas[c][n] # cschemas[CsSelf][n])
           => \A c \in ContainerSchemas \ {CsSelf} : SchemaUntouched(c)]_vars

=============================================================================
